---------------------------- MODULE Spec2Model ----------------------------
(***************************************************************************)
(* Community App API (src/main.py): the routes of the service as actions   *)
(* over the six collections of the document store.  A request is served by *)
(* one process; a handler that makes several writing store calls is split  *)
(* at those calls (register: find_one / insert_one; join_community:        *)
(* find_one / insert_one / update_one), so that overlapping requests       *)
(* interleave at the granularity of a store call.                          *)
(***************************************************************************)
EXTENDS Integers, Sequences, FiniteSets, TLC

\* ---------------------------------------------------------------- bounds
MaxUsers == 3
MaxMemberships == 3
MaxEvents == 2
MaxAnnouncements == 1
MaxCheckins == 1
MaxTime == 2
\* length of a calendar month in clock ticks (time is abstract)
MonthLen == 2

Procs == {1, 2}
Client == {1}

Emails == {"a@x.com", "b@x.com"}
Names == {"Ann"}
Passwords == {"pw", "pw2"}
UserIds == {"u1", "u2"}
CommunityIds == {"c1", "c2"}
None == "None"
Times == 0 .. (MaxTime + MonthLen)

VARIABLES
  db,            \* the store handle imported from database: None or "db"
  authuser,      \* db["authuser"], in insertion order
  membership,    \* db["membership"]
  community,     \* db["community"]
  event,         \* db["event"]
  announcement,  \* db["announcement"]
  checkin_,      \* db["checkin"]
  now,           \* datetime.utcnow()
  pc,            \* per process: the store call its handler is about to make
  req,           \* per process: the request it is serving
  pre,           \* per process: the store as it was when that request arrived
  last,          \* the exchange completed last: request, response, store before
  lost           \* per community id: joins that failed between insert and $inc

store == <<authuser, membership, community, event, announcement, checkin_>>
vars == <<db, authuser, membership, community, event, announcement, checkin_,
          now, pc, req, pre, last, lost>>

Store == [authuser |-> authuser, membership |-> membership,
          community |-> community, event |-> event,
          announcement |-> announcement, checkin |-> checkin_, now |-> now]

\* ------------------------------------------------------------- utilities
\* identifiers: ObjectId values assigned by insert_one, or plain strings
Oid(n) == [oid |-> n]
StrKey(s) == [s |-> s]
\* str(_id)
Str(v) == IF "oid" \in DOMAIN v THEN ToString(v.oid) ELSE v.s
\* equality of two stored values, of which b may be a whole document
BsonEq(a, b) == DOMAIN a = DOMAIN b /\ a = b

to_str_id(doc) ==
  [k \in ((DOMAIN doc) \ {"_id"}) \cup {"id"} |->
      IF k = "id" THEN Str(doc["_id"]) ELSE doc[k]]

\* sha256(...).hexdigest(): a digest of its input, one per input
sha256(x) == <<"sha256", x>>

Take(s, n) == IF Len(s) <= n THEN s ELSE SubSeq(s, 1, n)

RECURSIVE InsertBy(_, _, _, _)
\* put document d into the sorted sequence s, after the documents it ties with
InsertBy(s, d, key, dir) ==
  IF s = <<>> THEN <<d>>
  ELSE IF dir * d[key] < dir * Head(s)[key] THEN <<d>> \o s
  ELSE <<Head(s)>> \o InsertBy(Tail(s), d, key, dir)

RECURSIVE SortBy(_, _, _)
\* cursor.sort(key, dir)
SortBy(s, key, dir) ==
  IF s = <<>> THEN <<>>
  ELSE InsertBy(SortBy(SubSeq(s, 1, Len(s) - 1), key, dir), s[Len(s)], key, dir)

\* [to_str_id(d) for d in cursor]
StrIds(s) == [i \in 1 .. Len(s) |-> to_str_id(s[i])]

\* datetime(now.year, now.month, 1)
MonthStart(t) == t - (t % MonthLen)

\* ------------------------------------------------------------- responses
Ok(body) == [code |-> 200, detail |-> "", body |-> body]
HTTPException(code, detail) == [code |-> code, detail |-> detail, body |-> <<>>]
Unavailable == HTTPException(500, "Database unavailable")

NoReq == [op |-> "none"]
Idle(p) == pc[p] = "idle"

\* a handler that makes one step: the request arrives and r is returned
Answer(p, request, r) ==
  /\ last' = [req |-> request, resp |-> r, pre |-> Store]
  /\ UNCHANGED <<pc, req, pre>>
\* the request arrives and the handler goes on to the store call at l
Begin(p, request, l) ==
  /\ pc' = [pc EXCEPT ![p] = l]
  /\ req' = [req EXCEPT ![p] = request]
  /\ pre' = [pre EXCEPT ![p] = Store]
  /\ UNCHANGED last
\* the handler that began earlier returns (or raises) r
Finish(p, r) ==
  /\ last' = [req |-> req[p], resp |-> r, pre |-> pre[p]]
  /\ pc' = [pc EXCEPT ![p] = "idle"]
  /\ req' = [req EXCEPT ![p] = NoReq]
  /\ pre' = [pre EXCEPT ![p] = <<>>]

InFlight(l) == Cardinality({q \in Procs : pc[q] = l})

\* ------------------------------------------------------------------ Init
SeededCommunities ==
  { <<>>,
    << [_id |-> StrKey("c1"), title |-> "a", description |-> "x",
         member_count |-> 0] >>,
    << [_id |-> StrKey("c1"), title |-> "a", description |-> "x",
         member_count |-> 0],
       [_id |-> StrKey("c2"), title |-> "b", description |-> "y",
         member_count |-> 0] >> }

InitWith(handle) ==
  /\ db = handle
  /\ authuser = <<>>
  /\ membership = <<>>
  /\ community \in SeededCommunities
  /\ event = <<>>
  /\ announcement = <<>>
  /\ checkin_ = <<>>
  /\ now = 0
  /\ pc = [p \in Procs |-> "idle"]
  /\ req = [p \in Procs |-> NoReq]
  /\ pre = [p \in Procs |-> <<>>]
  /\ last = [req |-> NoReq, resp |-> Ok(<<>>), pre |-> <<>>]
  /\ lost = [c \in CommunityIds |-> 0]

Init == InitWith("db")
InitNoDb == InitWith(None)

\* ------------------------------------------------------------------ auth
Stored(users, email) == \E i \in DOMAIN users : users[i].email = email

UserDoc(n, body) ==
  [_id |-> Oid(n), email |-> body.email, name |-> body.name,
   password_hash |-> sha256(body.password), avatar_url |-> None,
   locale |-> "id", role |-> "user", is_active |-> TRUE,
   created_at |-> now, updated_at |-> now]

\* register without the existence check
register_unchecked(p) ==
  /\ Idle(p)
  /\ Len(authuser) + InFlight("register_insert") < MaxUsers
  /\ \E email \in Emails, name \in Names, password \in Passwords :
       LET body == [op |-> "register", email |-> email, name |-> name,
                    password |-> password]
       IN IF db = None THEN Answer(p, body, Unavailable)
          ELSE Begin(p, body, "register_insert")
  /\ UNCHANGED <<db, store, now, lost>>

\* POST /api/auth/register, up to the existence check
register(p) ==
  /\ Idle(p)
  /\ Len(authuser) + InFlight("register_insert") < MaxUsers
  /\ \E email \in Emails, name \in Names, password \in Passwords :
       LET body == [op |-> "register", email |-> email, name |-> name,
                    password |-> password]
       IN IF db = None THEN Answer(p, body, Unavailable)
          ELSE IF Stored(authuser, email)
          THEN Answer(p, body, HTTPException(400, "Email already registered"))
          ELSE Begin(p, body, "register_insert")
  /\ UNCHANGED <<db, store, now, lost>>

\* insert_one under a unique index on email: a duplicate is refused
register_insert_unique(p) ==
  /\ pc[p] = "register_insert"
  /\ IF Stored(authuser, req[p].email)
     THEN /\ Finish(p, HTTPException(500, "Internal Server Error"))
          /\ UNCHANGED authuser
     ELSE /\ authuser' = Append(authuser, UserDoc(Len(authuser) + 1, req[p]))
          /\ Finish(p, Ok([user |-> [id |-> Str(Oid(Len(authuser) + 1)),
                                     email |-> req[p].email,
                                     name |-> req[p].name, role |-> "user"]]))
  /\ UNCHANGED <<db, membership, community, event, announcement, checkin_,
                 now, lost>>

\* register, from insert_one to the return
register_insert(p) ==
  /\ pc[p] = "register_insert"
  /\ LET new_id == Oid(Len(authuser) + 1) IN
       /\ authuser' = Append(authuser, UserDoc(Len(authuser) + 1, req[p]))
       /\ Finish(p, Ok([user |-> [id |-> Str(new_id), email |-> req[p].email,
                                  name |-> req[p].name, role |-> "user"]]))
  /\ UNCHANGED <<db, membership, community, event, announcement, checkin_,
                 now, lost>>

\* the documents find({"email": .., "password_hash": ..}) matches
Credentials(users, email, password) ==
  {i \in DOMAIN users : /\ users[i].email = email
                        /\ users[i].password_hash = sha256(password)}

\* login that tells an unknown email from a wrong password
login_telling(p) ==
  /\ Idle(p)
  /\ \E email \in Emails, password \in Passwords :
       LET body == [op |-> "login", email |-> email, password |-> password]
           found == Credentials(authuser, email, password)
       IN IF db = None THEN Answer(p, body, Unavailable)
          ELSE IF ~Stored(authuser, email)
          THEN Answer(p, body, HTTPException(404, "User not found"))
          ELSE IF found = {}
          THEN Answer(p, body, HTTPException(401, "Invalid credentials"))
          ELSE LET u == to_str_id(authuser[CHOOSE i \in found :
                                             \A j \in found : i <= j])
               IN Answer(p, body,
                         Ok([user |-> [id |-> u.id, email |-> u.email,
                                       name |-> u.name],
                             token |-> sha256(<<u.id, u.email>>)]))
  /\ UNCHANGED <<db, store, now, lost>>

\* POST /api/auth/login
login(p) ==
  /\ Idle(p)
  /\ \E email \in Emails, password \in Passwords :
       LET body == [op |-> "login", email |-> email, password |-> password]
           found == Credentials(authuser, email, password)
       IN IF db = None THEN Answer(p, body, Unavailable)
          ELSE IF found = {}
          THEN Answer(p, body, HTTPException(401, "Invalid credentials"))
          ELSE LET u == to_str_id(authuser[CHOOSE i \in found :
                                             \A j \in found : i <= j])
               IN Answer(p, body,
                         Ok([user |-> [id |-> u.id, email |-> u.email,
                                       name |-> u.name],
                             token |-> sha256(<<u.id, u.email>>)]))
  /\ UNCHANGED <<db, store, now, lost>>

\* ----------------------------------------------------------- communities
\* a literal q as a regex: the text contains it (texts are one letter long)
RegexMatch(q, text) == q = text

\* db["community"].find(query): query is [q, idIn], either may be None
QueryMatch(c, q, idIn) ==
  /\ (q # None => RegexMatch(q, c.title) \/ RegexMatch(q, c.description))
  /\ (idIn # None => \E k \in DOMAIN idIn : BsonEq(c["_id"], idIn[k]))

FindCommunities(q, idIn) ==
  SelectSeq(community, LAMBDA c : QueryMatch(c, q, idIn))

\* the list stored under query["_id"]["$in"] when tab == "mine": the
\* community documents of the user, not their ids
MineIdIn(user_id) ==
  LET mine == SelectSeq(membership, LAMBDA m : m.user_id = user_id)
      my_ids == [i \in 1 .. Len(mine) |-> StrKey(mine[i].community_id)]
  IN SelectSeq(community,
               LAMBDA c : \E k \in DOMAIN my_ids : BsonEq(c["_id"], my_ids[k]))

DefaultLimit == 20

\* GET /api/communities
list_communities(p) ==
  /\ Idle(p)
  /\ \E q \in {None, "a"}, tab \in {None, "mine"}, user_id \in UserIds \cup {None},
        limit \in {1, DefaultLimit} :
       LET params == [op |-> "list_communities", q |-> q, tab |-> tab,
                      user_id |-> user_id, limit |-> limit]
           mine == tab = "mine" /\ user_id # None
           idIn == IF mine THEN MineIdIn(user_id) ELSE None
           cursor == Take(FindCommunities(q, idIn), limit)
           items == StrIds(cursor)
           member_ids == {membership[i].community_id :
                            i \in {j \in DOMAIN membership :
                                     membership[j].user_id = user_id}}
           out == IF mine
                  THEN SelectSeq(items, LAMBDA c : c.id \in member_ids)
                  ELSE items
       IN IF db = None THEN Answer(p, params, Ok([items |-> <<>>, count |-> 0]))
          ELSE Answer(p, params, Ok([items |-> out, count |-> Len(out)]))
  /\ UNCHANGED <<db, store, now, lost>>

Rows(ms, community_id) == SelectSeq(ms, LAMBDA m : m.community_id = community_id)

\* GET /api/communities/{community_id}
community_detail(p) ==
  /\ Idle(p)
  /\ \E community_id \in CommunityIds :
       LET params == [op |-> "community_detail", community_id |-> community_id]
           hit == IF db # None
                  THEN {i \in DOMAIN community :
                          BsonEq(community[i]["_id"], StrKey(community_id))}
                  ELSE {}
       IN IF hit = {}
          THEN Answer(p, params, HTTPException(404, "Community not found"))
          ELSE LET c == community[CHOOSE i \in hit : \A j \in hit : i <= j]
                   members == StrIds(Rows(membership, community_id))
                   stats == [member_count |-> Len(members),
                             events |-> Cardinality({i \in DOMAIN event :
                                 event[i].community_id = community_id}),
                             announcements |-> Cardinality(
                                 {i \in DOMAIN announcement :
                                    announcement[i].community_id = community_id})]
               IN Answer(p, params, Ok([community |-> to_str_id(c),
                                        members |-> members, stats |-> stats]))
  /\ UNCHANGED <<db, store, now, lost>>

HasMembership(ms, community_id, user_id) ==
  \E i \in DOMAIN ms : /\ ms[i].community_id = community_id
                       /\ ms[i].user_id = user_id

\* join that counts a member again when the membership exists already
join_community_recount(p) ==
  /\ Idle(p)
  /\ Len(membership) + InFlight("join_insert") < MaxMemberships
  /\ \E community_id \in CommunityIds, user_id \in UserIds :
       LET body == [op |-> "join_community", community_id |-> community_id,
                    user_id |-> user_id]
       IN IF HasMembership(membership, community_id, user_id)
          THEN /\ Answer(p, body, Ok([status |-> "already_member"]))
               /\ community' = [i \in DOMAIN community |->
                    IF community[i]["_id"] = StrKey(community_id)
                    THEN [community[i] EXCEPT !.member_count = @ + 1]
                    ELSE community[i]]
          ELSE Begin(p, body, "join_insert") /\ UNCHANGED community
  /\ UNCHANGED <<db, authuser, membership, event, announcement, checkin_,
                 now, lost>>

\* POST /api/communities/join, up to the existence check
join_community(p) ==
  /\ Idle(p)
  /\ Len(membership) + InFlight("join_insert") < MaxMemberships
  /\ \E community_id \in CommunityIds, user_id \in UserIds :
       LET body == [op |-> "join_community", community_id |-> community_id,
                    user_id |-> user_id]
       IN IF db = None THEN Answer(p, body, Unavailable)
          ELSE IF HasMembership(membership, community_id, user_id)
          THEN Answer(p, body, Ok([status |-> "already_member"]))
          ELSE Begin(p, body, "join_insert")
  /\ UNCHANGED <<db, store, now, lost>>

\* join_community: db["membership"].insert_one
join_insert(p) ==
  /\ pc[p] = "join_insert"
  /\ membership' = Append(membership,
       [_id |-> Oid(Len(membership) + 1),
        community_id |-> req[p].community_id, user_id |-> req[p].user_id,
        role |-> "member", status |-> "active",
        created_at |-> now, updated_at |-> now])
  /\ pc' = [pc EXCEPT ![p] = "join_inc"]
  /\ UNCHANGED <<db, authuser, community, event, announcement, checkin_,
                 now, req, pre, last, lost>>

\* update_many with no filter: every community is incremented
IncMemberCount_all(cs, community_id) ==
  [i \in DOMAIN cs |-> [cs[i] EXCEPT !.member_count = @ + 1]]

\* update_one with upsert=True: a missing community is created
IncMemberCount_upsert(cs, community_id) ==
  IF \E i \in DOMAIN cs : BsonEq(cs[i]["_id"], StrKey(community_id))
  THEN [i \in DOMAIN cs |->
          IF BsonEq(cs[i]["_id"], StrKey(community_id))
          THEN [cs[i] EXCEPT !.member_count = @ + 1] ELSE cs[i]]
  ELSE Append(cs, [_id |-> StrKey(community_id), title |-> "",
                   description |-> "", member_count |-> 1])

\* update_one({"_id": id}, {"$inc": {"member_count": 1}}): the first match
IncMemberCount(cs, community_id) ==
  LET hit == {i \in DOMAIN cs : BsonEq(cs[i]["_id"], StrKey(community_id))}
  IN IF hit = {} THEN cs
     ELSE LET i == CHOOSE i \in hit : \A j \in hit : i <= j
          IN [cs EXCEPT ![i].member_count = @ + 1]

\* join_community: db["community"].update_one, and the return
join_inc(p) ==
  /\ pc[p] = "join_inc"
  /\ community' = IncMemberCount(community, req[p].community_id)
  /\ Finish(p, Ok([status |-> "joined"]))
  /\ UNCHANGED <<db, authuser, membership, event, announcement, checkin_,
                 now, lost>>

\* a failed update_one that is compensated: the membership row is removed
join_inc_raises_rollback(p) ==
  /\ pc[p] = "join_inc"
  /\ lost' = [lost EXCEPT ![req[p].community_id] = @ + 1]
  /\ membership' = SelectSeq(membership, LAMBDA m :
                      ~(/\ m.community_id = req[p].community_id
                        /\ m.user_id = req[p].user_id))
  /\ Finish(p, HTTPException(500, "Internal Server Error"))
  /\ UNCHANGED <<db, authuser, community, event, announcement, checkin_, now>>

\* join_community: the update_one call raises (the store fails), the
\* exception leaves the handler and the framework answers 500
join_inc_raises(p) ==
  /\ pc[p] = "join_inc"
  /\ lost' = [lost EXCEPT ![req[p].community_id] = @ + 1]
  /\ Finish(p, HTTPException(500, "Internal Server Error"))
  /\ UNCHANGED <<db, store, now>>

\* ------------------------------------------------ announcements & events
\* GET /api/announcements
list_announcements(p) ==
  /\ Idle(p)
  /\ \E community_id \in {None, "c1"}, limit \in {1, DefaultLimit} :
       LET params == [op |-> "list_announcements",
                      community_id |-> community_id, limit |-> limit]
           found == SelectSeq(announcement, LAMBDA a :
                      community_id # None => a.community_id = community_id)
           items == StrIds(Take(SortBy(found, "created_at", -1), limit))
       IN IF db = None THEN Answer(p, params, Ok([items |-> <<>>]))
          ELSE Answer(p, params, Ok([items |-> items]))
  /\ UNCHANGED <<db, store, now, lost>>

\* POST /api/announcements
create_announcement(p) ==
  /\ Idle(p)
  /\ Len(announcement) < MaxAnnouncements
  /\ \E community_id \in CommunityIds :
       LET body == [op |-> "create_announcement", community_id |-> community_id,
                    title |-> "t", message |-> "m", author_id |-> None]
           new_id == Oid(Len(announcement) + 1)
       IN IF db = None
          THEN Answer(p, body, Unavailable) /\ UNCHANGED announcement
          ELSE /\ announcement' = Append(announcement,
                    [_id |-> new_id, community_id |-> body.community_id,
                     title |-> body.title, message |-> body.message,
                     author_id |-> body.author_id,
                     created_at |-> now, updated_at |-> now])
               /\ Answer(p, body, Ok([id |-> Str(new_id)]))
  /\ UNCHANGED <<db, authuser, membership, community, event, checkin_, now, lost>>

\* GET /api/events
list_events(p) ==
  /\ Idle(p)
  /\ \E community_id \in {None, "c1"}, upcoming \in BOOLEAN,
        limit \in {1, DefaultLimit} :
       LET params == [op |-> "list_events", community_id |-> community_id,
                      upcoming |-> upcoming, limit |-> limit]
           found == SelectSeq(event, LAMBDA e :
                      /\ community_id # None => e.community_id = community_id
                      /\ upcoming => e.starts_at >= now)
           items == StrIds(Take(SortBy(found, "starts_at", 1), limit))
       IN IF db = None THEN Answer(p, params, Ok([items |-> <<>>]))
          ELSE Answer(p, params, Ok([items |-> items]))
  /\ UNCHANGED <<db, store, now, lost>>

\* POST /api/events
create_event(p) ==
  /\ Idle(p)
  /\ Len(event) < MaxEvents
  /\ \E community_id \in CommunityIds, starts_at \in Times :
       LET body == [op |-> "create_event", community_id |-> community_id,
                    title |-> "t", description |-> None, location |-> None,
                    starts_at |-> starts_at, ends_at |-> None]
           new_id == Oid(Len(event) + 1)
       IN IF db = None
          THEN Answer(p, body, Unavailable) /\ UNCHANGED event
          ELSE /\ event' = Append(event,
                    [_id |-> new_id, community_id |-> body.community_id,
                     title |-> body.title, description |-> body.description,
                     location |-> body.location, starts_at |-> body.starts_at,
                     ends_at |-> body.ends_at,
                     created_at |-> now, updated_at |-> now])
               /\ Answer(p, body, Ok([id |-> Str(new_id)]))
  /\ UNCHANGED <<db, authuser, membership, community, announcement, checkin_,
                 now, lost>>

\* -------------------------------------------------------------- dashboard
DashboardLimit == 5

\* count_documents({field: {"$gte": month_start}})
CountSince(coll, field, month_start) ==
  Cardinality({i \in DOMAIN coll : coll[i][field] >= month_start})

\* GET /api/dashboard
dashboard(p) ==
  /\ Idle(p)
  /\ \E user_id \in {None, "u1"} :
       LET params == [op |-> "dashboard", user_id |-> user_id]
           month_start == MonthStart(now)
           active_members == Cardinality({i \in DOMAIN membership :
                                membership[i].status = "active"})
           events_this_month == CountSince(event, "starts_at", month_start)
           new_messages == CountSince(announcement, "created_at", month_start)
           upcoming_events ==
             StrIds(Take(SortBy(SelectSeq(event, LAMBDA e : e.starts_at >= now),
                                "starts_at", 1), DashboardLimit))
           announcements ==
             StrIds(Take(SortBy(announcement, "created_at", -1),
                         DashboardLimit))
       IN IF db = None
          THEN Answer(p, params, Ok([active_members |-> 0,
                                     events_this_month |-> 0,
                                     new_messages |-> 0]))
          ELSE Answer(p, params,
                      Ok([stats |-> [active_members |-> active_members,
                                     events_this_month |-> events_this_month,
                                     new_messages |-> new_messages],
                          upcoming_events |-> upcoming_events,
                          announcements |-> announcements]))
  /\ UNCHANGED <<db, store, now, lost>>

\* --------------------------------------------------------------- check-in
\* POST /api/checkin
checkin(p) ==
  /\ Idle(p)
  /\ Len(checkin_) < MaxCheckins
  /\ \E user_id \in UserIds, community_id \in {None, "c1"} :
       LET body == [op |-> "checkin", user_id |-> user_id,
                    community_id |-> community_id, lat |-> 0, lng |-> 0,
                    share_status |-> TRUE, note |-> None]
           new_id == Oid(Len(checkin_) + 1)
       IN IF db = None
          THEN Answer(p, body, Unavailable) /\ UNCHANGED checkin_
          ELSE /\ checkin_' = Append(checkin_,
                    [_id |-> new_id, user_id |-> body.user_id,
                     community_id |-> body.community_id, lat |-> body.lat,
                     lng |-> body.lng, share_status |-> body.share_status,
                     note |-> body.note, created_at |-> now])
               /\ Answer(p, body, Ok([status |-> "ok", id |-> Str(new_id)]))
  /\ UNCHANGED <<db, authuser, membership, community, event, announcement,
                 now, lost>>

\* the clock: datetime.utcnow() grows
Tick ==
  /\ now < MaxTime
  /\ now' = now + 1
  /\ UNCHANGED <<db, store, pc, req, pre, last, lost>>

\* ---------------------------------------------------------- specifications
\* one client, requests one after another: accounts and communities
Next ==
  \E p \in Client :
    \/ register(p)
    \/ register_insert(p)
    \/ login(p)
    \/ list_communities(p)
    \/ community_detail(p)
    \/ join_community(p)
    \/ join_insert(p)
    \/ join_inc(p)

Spec == Init /\ [][Next]_vars

\* one client, requests one after another: events, announcements, dashboard
NextDash ==
  \/ Tick
  \/ \E p \in Client :
       \/ create_event(p)
       \/ create_announcement(p)
       \/ list_events(p)
       \/ list_announcements(p)
       \/ dashboard(p)

\* no community is stored: these routes do not read the collection
InitDash == Init /\ community = <<>>
SpecDash == InitDash /\ [][NextDash]_vars

\* the store handle is None: every route, two clients
NextNoDb ==
  \E p \in Procs :
    \/ register(p)
    \/ login(p)
    \/ dashboard(p)
    \/ list_communities(p)
    \/ community_detail(p)
    \/ join_community(p)
    \/ list_announcements(p)
    \/ create_announcement(p)
    \/ list_events(p)
    \/ create_event(p)
    \/ checkin(p)

SpecNoDb == InitNoDb /\ [][NextNoDb]_vars

\* two clients whose requests overlap: accounts
NextRegRace ==
  \E p \in Procs :
    \/ register(p)
    \/ register_insert(p)
    \/ login(p)

SpecRegRace == InitDash /\ [][NextRegRace]_vars

\* two clients whose requests overlap, and an update_one that may fail
NextJoinRace ==
  \E p \in Procs :
    \/ join_community(p)
    \/ join_insert(p)
    \/ join_inc(p)
    \/ join_inc_raises(p)
    \/ community_detail(p)

SpecJoinRace == Init /\ [][NextJoinRace]_vars

\* every route, two clients whose requests overlap; the store is kept small
\* and the requests are about one account, one user and two start times
MaxDocs == 2
Docs ==
  Len(authuser) + Len(membership) + Len(event) + Len(announcement)
    + Len(checkin_) + InFlight("register_insert") + InFlight("join_insert")
InFocus(r) ==
  /\ "email" \in DOMAIN r => r.email = "a@x.com"
  /\ "user_id" \in DOMAIN r => r.user_id \in {None, "u1"}
  /\ "starts_at" \in DOMAIN r => r.starts_at \in {0, MaxTime}
  /\ "limit" \in DOMAIN r => r.limit = DefaultLimit
Focused == InFocus(last.req) /\ \A p \in Procs : InFocus(req[p])
Few(A) == A /\ Focused'
Small(A) == A /\ Focused' /\ Docs' <= MaxDocs

NextAll ==
  \E p \in Procs :
    \/ Small(register(p))
    \/ register_insert(p)
    \/ Few(login(p))
    \/ Few(dashboard(p))
    \/ Few(list_communities(p))
    \/ Few(community_detail(p))
    \/ Small(join_community(p))
    \/ join_insert(p)
    \/ join_inc(p)
    \/ join_inc_raises(p)
    \/ Few(list_announcements(p))
    \/ Small(create_announcement(p))
    \/ Few(list_events(p))
    \/ Small(create_event(p))
    \/ Small(checkin(p))

InitAll == Init /\ Len(community) = 1
SpecAll == InitAll /\ [][NextAll]_vars
\* ------------------------------------------------------------------ claims
Quiet == \A p \in Procs : Idle(p)
Is(r, code, detail) == r.code = code /\ r.detail = detail
IsPrefix(s, t) == Len(s) <= Len(t) /\ SubSeq(t, 1, Len(s)) = s
Appended(s, t) == Len(t) = Len(s) + 1 /\ SubSeq(t, 1, Len(s)) = s
CountEmail(users, email) ==
  Cardinality({i \in DOMAIN users : users[i].email = email})
PairRows(ms, community_id, user_id) ==
  Cardinality({i \in DOMAIN ms : /\ ms[i].community_id = community_id
                                 /\ ms[i].user_id = user_id})
StoredCommunity(cs, community_id) ==
  \E i \in DOMAIN cs : cs[i]["_id"] = StrKey(community_id)

\* C1: register calls that run one after another: a call whose email is not
\* stored succeeds and inserts exactly one user document (with the defaults);
\* a call whose email is stored gets 400 "Email already registered" and
\* leaves the collection as it was; no two user documents share an email.
C1_RegisterSequential ==
  /\ \A i, j \in DOMAIN authuser :
       authuser[i].email = authuser[j].email => i = j
  /\ (Quiet /\ last.req.op = "register") =>
       IF Stored(last.pre.authuser, last.req.email)
       THEN /\ Is(last.resp, 400, "Email already registered")
            /\ authuser = last.pre.authuser
       ELSE /\ last.resp.code = 200
            /\ last.resp.body.user.email = last.req.email
            /\ Appended(last.pre.authuser, authuser)
            /\ LET u == authuser[Len(authuser)]
               IN /\ u.email = last.req.email
                  /\ u.password_hash = sha256(last.req.password)
                  /\ u.locale = "id" /\ u.role = "user" /\ u.is_active

C1_Witness ==
  /\ Quiet
  /\ last.req.op = "register"
  /\ Is(last.resp, 400, "Email already registered")
  /\ Len(authuser) = 2

JoinedOrNot(countPart) ==
  (Quiet /\ last.req.op = "join_community") =>
    LET c == last.req.community_id
        u == last.req.user_id
    IN IF HasMembership(last.pre.membership, c, u)
       THEN /\ last.resp.code = 200
            /\ last.resp.body.status = "already_member"
            /\ membership = last.pre.membership
            /\ community = last.pre.community
       ELSE /\ last.resp.code = 200
            /\ last.resp.body.status = "joined"
            /\ Appended(last.pre.membership, membership)
            /\ LET m == membership[Len(membership)]
               IN /\ m.community_id = c /\ m.user_id = u
                  /\ m.role = "member" /\ m.status = "active"
            /\ countPart

\* C2 as stated: the first join of a pair returns "joined", inserts one
\* membership row and increments that community's member_count by exactly 1;
\* a later join of the pair returns "already_member" and changes nothing.
C2_Original ==
  JoinedOrNot(\E i \in DOMAIN community :
                /\ community[i]["_id"] = StrKey(last.req.community_id)
                /\ community[i].member_count
                     = last.pre.community[i].member_count + 1)

\* C2 amended: as C2, but the member_count that grows by exactly 1 is that of
\* the stored community document with that id, every other community document
\* staying as it was; when no such document is stored, the join still returns
\* "joined" and inserts the row, and the community collection is unchanged.
C2_JoinSequential ==
  JoinedOrNot(/\ Len(community) = Len(last.pre.community)
              /\ \A i \in DOMAIN community :
                   community[i] =
                     IF community[i]["_id"] = StrKey(last.req.community_id)
                     THEN [last.pre.community[i] EXCEPT !.member_count = @ + 1]
                     ELSE last.pre.community[i])

C2_Witness ==
  /\ Quiet
  /\ last.req.op = "join_community"
  /\ last.resp.body.status = "already_member"
  /\ \E i \in DOMAIN community :
       /\ community[i]["_id"] = StrKey(last.req.community_id)
       /\ community[i].member_count = 1
  /\ PairRows(membership, last.req.community_id, last.req.user_id) = 1

\* the store held nothing, and join(c1, u1) has been served since
JoinedFromEmpty ==
  /\ Quiet
  /\ community = <<>> /\ authuser = <<>>
  /\ Len(membership) = 1
  /\ membership[1].community_id = "c1" /\ membership[1].user_id = "u1"

\* C3 as stated: from an empty store, after join(c1, u1) the detail call for
\* c1 succeeds and reports stats.member_count = 1.
C3_Original ==
  (/\ JoinedFromEmpty
   /\ last.req.op = "community_detail"
   /\ last.req.community_id = "c1")
    => /\ last.resp.code = 200
       /\ last.resp.body.stats.member_count = 1

\* C3 amended: from an empty store, join(c1, u1) returns "joined" and inserts
\* the membership row but no community document, so the detail call for c1
\* made after it fails with 404 "Community not found"; a detail call succeeds
\* exactly when the community document is stored, and then reports the number
\* of membership rows of that community as stats.member_count (1 after the
\* join when c1 was stored beforehand).
C3_JoinThenDetail ==
  /\ (Quiet /\ last.req.op = "join_community" /\ last.pre.membership = <<>>)
       => /\ last.resp.code = 200
          /\ last.resp.body.status = "joined"
          /\ Len(membership) = 1
          /\ Len(community) = Len(last.pre.community)
  /\ (Quiet /\ last.req.op = "community_detail")
       => IF StoredCommunity(community, last.req.community_id)
          THEN /\ last.resp.code = 200
               /\ last.resp.body.stats.member_count
                    = Len(Rows(membership, last.req.community_id))
          ELSE Is(last.resp, 404, "Community not found")

C3_Witness ==
  /\ JoinedFromEmpty
  /\ last.req.op = "community_detail"
  /\ last.req.community_id = "c1"
  /\ Is(last.resp, 404, "Community not found")

ReadOps == {"dashboard", "list_communities", "community_detail",
            "list_announcements", "list_events"}
WriteOps == {"register", "join_community", "create_announcement",
             "create_event", "checkin"}

\* C4: with the store handle None, every read route returns a success that
\* holds only empty lists and zero counts, and every write route and login
\* fail with 500 "Database unavailable".
C4_NoDbOutcomes ==
  db = None =>
    /\ last.req.op \in WriteOps \cup {"login"}
         => Is(last.resp, 500, "Database unavailable")
    /\ last.req.op \in ReadOps => last.resp.code = 200
    /\ (last.req.op = "dashboard" /\ last.resp.code = 200)
         => last.resp.body = [active_members |-> 0, events_this_month |-> 0,
                              new_messages |-> 0]
    /\ (last.req.op = "list_communities" /\ last.resp.code = 200)
         => last.resp.body = [items |-> <<>>, count |-> 0]
    /\ (last.req.op \in {"list_announcements", "list_events"}
          /\ last.resp.code = 200)
         => last.resp.body = [items |-> <<>>]

\* C5: with the store available, a login whose (email, password hash) pair
\* matches no user document gets 401 "Invalid credentials" with no body,
\* whether the email is stored (wrong password) or not (unknown email), and
\* a login leaves the store as it was.
C5_LoginUniform ==
  (Quiet /\ last.req.op = "login") =>
    /\ Store = last.pre
    /\ Credentials(authuser, last.req.email, last.req.password) = {}
         => last.resp = HTTPException(401, "Invalid credentials")
    /\ Credentials(authuser, last.req.email, last.req.password) # {}
         => last.resp.code = 200

C5_Witness ==
  /\ Quiet
  /\ last.req.op = "login"
  /\ Stored(authuser, last.req.email)
  /\ Is(last.resp, 401, "Invalid credentials")
  /\ \E e \in Emails : ~Stored(authuser, e)

\* the step by which a join that inserted its membership row increments
JoinIncrements(i) ==
  \E p \in Procs :
    /\ pc[p] = "join_inc" /\ pc'[p] = "idle"
    /\ community[i]["_id"] = StrKey(req[p].community_id)
    /\ HasMembership(membership, req[p].community_id, req[p].user_id)
    /\ last'.resp.code = 200

Unchanging ==
  \/ last'.req.op \in ReadOps \cup {"login"}
  \/ last'.req.op = "register" /\ last'.resp.code = 400
  \/ /\ last'.req.op = "join_community"
     /\ last'.resp.code = 200
     /\ last'.resp.body.status = "already_member"

\* C6: in every step every document stays in its collection with its fields
\* unchanged, but for a community's member_count, which grows by 1 only in
\* the increment step of a join that inserted a membership row; a step that
\* completes a read route, a login, a rejected register or an
\* "already_member" join leaves the whole store unchanged.
C6_Frame ==
  [][/\ IsPrefix(authuser, authuser')
     /\ IsPrefix(membership, membership')
     /\ IsPrefix(event, event')
     /\ IsPrefix(announcement, announcement')
     /\ IsPrefix(checkin_, checkin_')
     /\ Len(community') = Len(community)
     /\ \A i \in DOMAIN community :
          \/ community'[i] = community[i]
          \/ /\ community'[i] = [community[i] EXCEPT !.member_count = @ + 1]
             /\ JoinIncrements(i)
     /\ (last' # last /\ Unchanging) => store' = store]_vars

C6_Witness ==
  /\ Quiet
  /\ Len(Rows(membership, "c1")) = 2
  /\ \E i \in DOMAIN community :
       /\ community[i]["_id"] = StrKey("c1")
       /\ community[i].member_count = 1
  /\ lost["c1"] = 1

InMonth(t, at) == MonthStart(at) <= t /\ t < MonthStart(at) + MonthLen

\* C7: the dashboard's events_this_month is the number of events whose
\* starts_at lies in the current calendar month, and new_messages the number
\* of announcements whose created_at does; nothing outside it is counted.
C7_DashboardMonth ==
  (last.req.op = "dashboard" /\ db # None) =>
    /\ last.resp.body.stats.events_this_month
         = Cardinality({i \in DOMAIN last.pre.event :
                          InMonth(last.pre.event[i].starts_at, last.pre.now)})
    /\ last.resp.body.stats.new_messages
         = Cardinality({i \in DOMAIN last.pre.announcement :
                          InMonth(last.pre.announcement[i].created_at,
                                  last.pre.now)})

\* C8: list communities with tab "mine" and a user_id (no q, limit not below
\* the number of stored communities) returns exactly the stored communities
\* the user has a membership row for, and count is the number of items.
C8_MineExact ==
  (/\ last.req.op = "list_communities" /\ db # None
   /\ last.req.tab = "mine" /\ last.req.user_id # None
   /\ last.req.q = None /\ last.req.limit >= Len(last.pre.community))
    => /\ last.resp.body.items
            = StrIds(SelectSeq(last.pre.community, LAMBDA c :
                       HasMembership(last.pre.membership, Str(c["_id"]),
                                     last.req.user_id)))
       /\ last.resp.body.count = Len(last.resp.body.items)

\* C9: register's existence check and its insert are separate store calls: a
\* request that passed the check inserts its user document and returns
\* success whatever was stored in between, so two overlapping registers of
\* one email both succeed and leave two documents with that email.
C9_RegisterRace ==
  [][\A p \in Procs :
       (pc[p] = "register_insert" /\ pc'[p] = "idle") =>
         /\ ~Stored(pre[p].authuser, req[p].email)
         /\ Appended(authuser, authuser')
         /\ authuser'[Len(authuser')].email = req[p].email
         /\ CountEmail(authuser', req[p].email)
              = CountEmail(authuser, req[p].email) + 1
         /\ last'.resp.code = 200
         /\ last'.resp.body.user.email = req[p].email]_vars

C9_Witness ==
  /\ Quiet
  /\ last.req.op = "register"
  /\ last.resp.code = 200
  /\ ~Stored(last.pre.authuser, last.req.email)
  /\ CountEmail(authuser, last.req.email) = 2

JoinsAtInc(community_id) ==
  Cardinality({p \in Procs : /\ pc[p] = "join_inc"
                             /\ req[p].community_id = community_id})

\* C10: join's check, insert and increment are separate store calls: the
\* member_count of a stored community is the number of its membership rows
\* less the joins that have inserted and not yet incremented and less the
\* joins that failed between the two, which nothing makes up for; so two
\* overlapping joins of one pair both return "joined", leave two rows of
\* the pair and add 2 to member_count.
C10_JoinRace ==
  /\ \A i \in DOMAIN community :
       LET c == Str(community[i]["_id"])
       IN community[i].member_count
            = Len(Rows(membership, c)) - JoinsAtInc(c) - lost[c]
  /\ \A p \in Procs :
       pc[p] \in {"join_insert", "join_inc"} =>
         ~HasMembership(pre[p].membership, req[p].community_id, req[p].user_id)
  /\ (last.req.op = "join_community" /\ last.resp.code = 200
        /\ ~HasMembership(last.pre.membership, last.req.community_id,
                          last.req.user_id))
       => last.resp.body.status = "joined"

C10_Witness ==
  /\ Quiet
  /\ last.req.op = "join_community"
  /\ last.resp.code = 200
  /\ last.resp.body.status = "joined"
  /\ PairRows(membership, "c1", last.req.user_id) = 2
  /\ Len(Rows(membership, "c1")) = 3
  /\ lost["c1"] = 1
  /\ \E i \in DOMAIN community :
       /\ community[i]["_id"] = StrKey("c1")
       /\ community[i].member_count = 2
=============================================================================
